---- MODULE Spec2Model ----
(***************************************************************************)
(* Model of FEA_cable_collide_1_solution.cpp: main() builds a cable of     *)
(* ANCF beam elements hanging from a fixed truss with a cylinder attached  *)
(* to its free end, finalizes the system (SetupInitial) and then runs the  *)
(* render/step loop until the Irrlicht device stops.                       *)
(*                                                                         *)
(* The program is one sequential thread; pc is the statement main() is     *)
(* about to execute.  Lengths are in millimetres so that the positions     *)
(* main() computes are integers.  What the engine does inside a step       *)
(* (assembly, MINRES solve, integration) is not part of this source: a     *)
(* step is seen here only as the advance of the system time by one         *)
(* timestep, and the configuration after k steps is identified by          *)
(* ChTime = k.                                                             *)
(***************************************************************************)
EXTENDS Integers, Sequences, FiniteSets, TLC

VARIABLES
    pc,             \* statement of main() to execute next
    G_acc,          \* system gravity, <<x, y, z>> in mm/s^2
    mesh_added,     \* system.Add(mesh) has been called
    beam_material,  \* ChBeamSectionCable settings
    node_pos,       \* node id -> position given to ChNodeFEAxyzD
    node_dir,       \* node id -> direction given to ChNodeFEAxyzD
    mesh_nodes,     \* sequence of node ids registered with mesh->AddNode
    beam_nodes,     \* the auxiliary std::vector of node ids
    in,             \* counter of the node loop
    ie,             \* counter of the element loop
    element,        \* the element under construction in the loop body
    mesh_elements,  \* sequence of elements registered with mesh->AddElement
    body,           \* body name -> [fixed, pos] for the bodies created
    bodylist,       \* sequence of body names registered with system.Add
    link,           \* constraint name -> [node, body] set by Initialize
    linklist,       \* sequence of constraint names registered with system.Add
    assets,         \* number of visualization assets added to the mesh
    solver,         \* solver and timestepper configuration
    timestep,       \* application timestep, in milliseconds
    initialized,    \* system.SetupInitial() has been called
    setup_calls,    \* number of calls of system.SetupInitial()
    node_offset,    \* node id -> first global DOF index, assigned at finalize
    body_offset,    \* body name -> first global DOF index, assigned at finalize
    ncoords,        \* total number of DOFs, assigned at finalize
    ndoc,           \* total number of constraint equations, assigned at finalize
    ChTime,         \* number of steps taken (system time / timestep)
    drawn,          \* ChTime of the configuration DrawAll last rendered, -1: none
    scene_open      \* between BeginScene and EndScene

meshVars == <<node_pos, node_dir, mesh_nodes, beam_nodes, in, ie, element, mesh_elements>>
sysVars  == <<G_acc, mesh_added, body, bodylist, link, linklist>>
cfgVars  == <<beam_material, assets, solver, timestep>>
finVars  == <<initialized, setup_calls, node_offset, body_offset, ncoords, ndoc>>
runVars  == <<ChTime, drawn, scene_open>>
vars     == <<pc, meshVars, sysVars, cfgVars, finVars, runVars>>

----------------------------------------------------------------------------
(* Program constants *)

N_nodes    == 16      \* int N_nodes = 16
length     == 1200    \* double length = 1.2 (m), in mm
node_y     == 500     \* node position, y = 0.5 (m), in mm
cyl_drop   == 50      \* cylinder placed 0.05 m below the last node, in mm
MaxIters   == 200     \* SetMaxItersSolverSpeed(200) / SetMaxItersSolverStab(200)
dt_ms      == 10      \* application.SetTimestep(0.01), in ms

(* Bound of the model: the longest run of the render/step loop explored. *)
MaxSteps   == 12

NoElement  == [nodeA |-> -1, nodeB |-> -1]
EmptyFun   == [x \in {} |-> 0]

Range(s)   == {s[k] : k \in 1..Len(s)}

\* ChVector<> position(length * (in / double(N_nodes - 1)), 0.5, 0)
position(i)  == <<(length * i) \div (N_nodes - 1), node_y, 0>>
\* ChVector<> direction(1.0, 0, 0)
direction(i) == <<1, 0, 0>>

\* beam_nodes.back()
back(s) == s[Len(s)]

VecAdd(a, b) == <<a[1] + b[1], a[2] + b[2], a[3] + b[3]>>

----------------------------------------------------------------------------
(* Global DOF layout assigned when the system is finalized.  Nodes of the  *)
(* mesh come first, in registration order, then the bodies in              *)
(* registration order.                                                     *)

NodeDofs(n) == 6
BodyDofs(b) == IF body[b].fixed THEN 0 ELSE 6
LinkDoc(l)  == 3

RECURSIVE SumBodyDofs(_)
SumBodyDofs(k) == IF k = 0 THEN 0 ELSE SumBodyDofs(k - 1) + BodyDofs(bodylist[k])

RECURSIVE SumNodeDofs(_)
SumNodeDofs(k) == IF k = 0 THEN 0 ELSE SumNodeDofs(k - 1) + NodeDofs(mesh_nodes[k])

RECURSIVE SumLinkDoc(_)
SumLinkDoc(k) == IF k = 0 THEN 0 ELSE SumLinkDoc(k - 1) + LinkDoc(linklist[k])

NodeOffsets == [n \in Range(mesh_nodes) |->
                  SumNodeDofs((CHOOSE k \in 1..Len(mesh_nodes) : mesh_nodes[k] = n) - 1)]
BodyOffsets == [b \in Range(bodylist) |->
                  SumNodeDofs(Len(mesh_nodes))
                  + SumBodyDofs((CHOOSE k \in 1..Len(bodylist) : bodylist[k] = b) - 1)]

----------------------------------------------------------------------------
(* The state after  ChSystemNSC system; system.Set_G_acc(ChVector<>(0, -9.81, 0)) *)
Init ==
    /\ pc = "AddMesh"
    /\ G_acc = <<0, -9810, 0>>
    /\ mesh_added = FALSE
    /\ beam_material = EmptyFun
    /\ node_pos = EmptyFun
    /\ node_dir = EmptyFun
    /\ mesh_nodes = <<>>
    /\ beam_nodes = <<>>
    /\ in = 0
    /\ ie = 0
    /\ element = NoElement
    /\ mesh_elements = <<>>
    /\ body = EmptyFun
    /\ bodylist = <<>>
    /\ link = EmptyFun
    /\ linklist = <<>>
    /\ assets = 0
    /\ solver = EmptyFun
    /\ timestep = 0
    /\ initialized = FALSE
    /\ setup_calls = 0
    /\ node_offset = EmptyFun
    /\ body_offset = EmptyFun
    /\ ncoords = 0
    /\ ndoc = 0
    /\ ChTime = 0
    /\ drawn = -1
    /\ scene_open = FALSE

----------------------------------------------------------------------------
(* 1. - 3.  System, mesh and material *)

\* auto mesh = std::make_shared<ChMesh>(); system.Add(mesh)
AddMesh ==
    /\ pc = "AddMesh"
    /\ mesh_added' = TRUE
    /\ pc' = "CreateMaterial"
    /\ UNCHANGED <<G_acc, body, bodylist, link, linklist>>
    /\ UNCHANGED <<meshVars, cfgVars, finVars, runVars>>

\* beam_material: diameter 0.01 m, Young modulus 0.01e9 Pa, Rayleigh damping 0.01
CreateMaterial ==
    /\ pc = "CreateMaterial"
    /\ beam_material' = [diameter_mm |-> 10, young_kPa |-> 10000, damping_permille |-> 10]
    /\ pc' = "nodes"
    /\ UNCHANGED <<assets, solver, timestep>>
    /\ UNCHANGED <<meshVars, sysVars, finVars, runVars>>

----------------------------------------------------------------------------
(* 4.  The node loop: for (int in = 0; in < N_nodes; ++in) *)

\* A loop body that forgets mesh->AddNode(node).
CreateNodeNotAdded ==
    /\ pc = "nodes"
    /\ in < N_nodes
    /\ node_pos' = (in :> position(in)) @@ node_pos
    /\ node_dir' = (in :> direction(in)) @@ node_dir
    /\ beam_nodes' = Append(beam_nodes, in)
    /\ in' = in + 1
    /\ UNCHANGED <<pc, mesh_nodes, ie, element, mesh_elements>>
    /\ UNCHANGED <<sysVars, cfgVars, finVars, runVars>>

CreateNode ==
    /\ pc = "nodes"
    /\ in < N_nodes
    /\ node_pos' = (in :> position(in)) @@ node_pos
    /\ node_dir' = (in :> direction(in)) @@ node_dir
    /\ mesh_nodes' = Append(mesh_nodes, in)
    /\ beam_nodes' = Append(beam_nodes, in)
    /\ in' = in + 1
    /\ UNCHANGED <<pc, ie, element, mesh_elements>>
    /\ UNCHANGED <<sysVars, cfgVars, finVars, runVars>>

NodeLoopExit ==
    /\ pc = "nodes"
    /\ ~(in < N_nodes)
    /\ pc' = "elements"
    /\ ie' = 0
    /\ UNCHANGED <<node_pos, node_dir, mesh_nodes, beam_nodes, in, element, mesh_elements>>
    /\ UNCHANGED <<sysVars, cfgVars, finVars, runVars>>

----------------------------------------------------------------------------
(* 5.  The element loop: for (int ie = 0; ie < N_nodes - 1; ++ie) *)

\* element = make_shared<ChElementCableANCF>();
\* element->SetNodes(beam_nodes[ie], beam_nodes[ie + 1])   (0-based indices)
SetNodes ==
    /\ pc = "elements"
    /\ ie < N_nodes - 1
    /\ element' = [nodeA |-> beam_nodes[ie + 1], nodeB |-> beam_nodes[ie + 2]]
    /\ pc' = "AddElement"
    /\ UNCHANGED <<node_pos, node_dir, mesh_nodes, beam_nodes, in, ie, mesh_elements>>
    /\ UNCHANGED <<sysVars, cfgVars, finVars, runVars>>

\* element->SetSection(beam_material); mesh->AddElement(element); ++ie
AddElement ==
    /\ pc = "AddElement"
    /\ mesh_elements' = Append(mesh_elements, element)
    /\ element' = NoElement
    /\ ie' = ie + 1
    /\ pc' = "elements"
    /\ UNCHANGED <<node_pos, node_dir, mesh_nodes, beam_nodes, in>>
    /\ UNCHANGED <<sysVars, cfgVars, finVars, runVars>>

ElementLoopExit ==
    /\ pc = "elements"
    /\ ~(ie < N_nodes - 1)
    /\ pc' = "AddTruss"
    /\ UNCHANGED <<meshVars, sysVars, cfgVars, finVars, runVars>>

----------------------------------------------------------------------------
(* 6.  Truss, cylinder and constraints *)

\* A truss that is added without truss->SetBodyFixed(true).
AddTrussNotFixed ==
    /\ pc = "AddTruss"
    /\ body' = ("truss" :> [fixed |-> FALSE, pos |-> <<0, 0, 0>>]) @@ body
    /\ bodylist' = Append(bodylist, "truss")
    /\ pc' = "InitConstraintPos"
    /\ UNCHANGED <<G_acc, mesh_added, link, linklist>>
    /\ UNCHANGED <<meshVars, cfgVars, finVars, runVars>>

\* truss = make_shared<ChBody>(); truss->SetBodyFixed(true); system.Add(truss)
AddTruss ==
    /\ pc = "AddTruss"
    /\ body' = ("truss" :> [fixed |-> TRUE, pos |-> <<0, 0, 0>>]) @@ body
    /\ bodylist' = Append(bodylist, "truss")
    /\ pc' = "InitConstraintPos"
    /\ UNCHANGED <<G_acc, mesh_added, link, linklist>>
    /\ UNCHANGED <<meshVars, cfgVars, finVars, runVars>>

\* constraint_pos->Initialize(beam_nodes[0], truss)
InitConstraintPos ==
    /\ pc = "InitConstraintPos"
    /\ link' = ("constraint_pos" :> [node |-> beam_nodes[1], body |-> "truss"]) @@ link
    /\ pc' = "AddConstraintPos"
    /\ UNCHANGED <<G_acc, mesh_added, body, bodylist, linklist>>
    /\ UNCHANGED <<meshVars, cfgVars, finVars, runVars>>

\* system.Add(constraint_pos)
AddConstraintPos ==
    /\ pc = "AddConstraintPos"
    /\ linklist' = Append(linklist, "constraint_pos")
    /\ pc' = "CreateCylinder"
    /\ UNCHANGED <<G_acc, mesh_added, body, bodylist, link>>
    /\ UNCHANGED <<meshVars, cfgVars, finVars, runVars>>

\* cylinder = make_shared<ChBodyEasyCylinder>(0.02, 0.1, 1000, true, true);
\* cylinder->SetPos(beam_nodes.back()->GetPos() + ChVector<>(0, -0.05, 0))
CreateCylinder ==
    /\ pc = "CreateCylinder"
    /\ body' = ("cylinder" :> [fixed |-> FALSE,
                               pos |-> VecAdd(node_pos[back(beam_nodes)], <<0, -cyl_drop, 0>>)])
               @@ body
    /\ pc' = "AddCylinder"
    /\ UNCHANGED <<G_acc, mesh_added, bodylist, link, linklist>>
    /\ UNCHANGED <<meshVars, cfgVars, finVars, runVars>>

\* system.Add(cylinder)
AddCylinder ==
    /\ pc = "AddCylinder"
    /\ bodylist' = Append(bodylist, "cylinder")
    /\ pc' = "InitConstraintCyl"
    /\ UNCHANGED <<G_acc, mesh_added, body, link, linklist>>
    /\ UNCHANGED <<meshVars, cfgVars, finVars, runVars>>

\* constraint_cyl->Initialize(beam_nodes.back(), cylinder)
InitConstraintCyl ==
    /\ pc = "InitConstraintCyl"
    /\ link' = ("constraint_cyl" :> [node |-> back(beam_nodes), body |-> "cylinder"]) @@ link
    /\ pc' = "AddConstraintCyl"
    /\ UNCHANGED <<G_acc, mesh_added, body, bodylist, linklist>>
    /\ UNCHANGED <<meshVars, cfgVars, finVars, runVars>>

\* system.Add(constraint_cyl)
AddConstraintCyl ==
    /\ pc = "AddConstraintCyl"
    /\ linklist' = Append(linklist, "constraint_cyl")
    /\ pc' = "AddVisualization"
    /\ UNCHANGED <<G_acc, mesh_added, body, bodylist, link>>
    /\ UNCHANGED <<meshVars, cfgVars, finVars, runVars>>

----------------------------------------------------------------------------
(* 7. - 10.  Visualization assets, solver, application *)

\* mesh->AddAsset(mvisualizebeamA); mesh->AddAsset(mvisualizebeamC)
AddVisualization ==
    /\ pc = "AddVisualization"
    /\ assets' = assets + 2
    /\ pc' = "ConfigureSolver"
    /\ UNCHANGED <<beam_material, solver, timestep>>
    /\ UNCHANGED <<meshVars, sysVars, finVars, runVars>>

\* SetSolverType(MINRES); SetSolverWarmStarting(true); SetMaxItersSolverSpeed(200);
\* SetMaxItersSolverStab(200); SetTolForce(1e-10);
\* SetTimestepperType(EULER_IMPLICIT_LINEARIZED)
ConfigureSolver ==
    /\ pc = "ConfigureSolver"
    /\ solver' = [type |-> "MINRES", warm_start |-> TRUE,
                  max_iters_speed |-> MaxIters, max_iters_stab |-> MaxIters,
                  tol_force_exp10 |-> -10,
                  timestepper |-> "EULER_IMPLICIT_LINEARIZED"]
    /\ pc' = "CreateApplication"
    /\ UNCHANGED <<beam_material, assets, timestep>>
    /\ UNCHANGED <<meshVars, sysVars, finVars, runVars>>

\* ChIrrApp application(&system, ...); logo, sky, lights, camera;
\* AssetBindAll(); AssetUpdateAll(); SetTimestep(0.01); SetTryRealtime(true)
CreateApplication ==
    /\ pc = "CreateApplication"
    /\ timestep' = dt_ms
    /\ pc' = "SetupInitial"
    /\ UNCHANGED <<beam_material, assets, solver>>
    /\ UNCHANGED <<meshVars, sysVars, finVars, runVars>>

----------------------------------------------------------------------------
(* Mark completion of system construction *)

\* A program that omits the call of system.SetupInitial().
SetupInitialOmitted ==
    /\ pc = "SetupInitial"
    /\ pc' = "while"
    /\ UNCHANGED <<meshVars, sysVars, cfgVars, finVars, runVars>>

\* system.SetupInitial()
SetupInitial ==
    /\ pc = "SetupInitial"
    /\ initialized' = TRUE
    /\ setup_calls' = setup_calls + 1
    /\ node_offset' = NodeOffsets
    /\ body_offset' = BodyOffsets
    /\ ncoords' = SumNodeDofs(Len(mesh_nodes)) + SumBodyDofs(Len(bodylist))
    /\ ndoc' = SumLinkDoc(Len(linklist))
    /\ pc' = "while"
    /\ UNCHANGED <<meshVars, sysVars, cfgVars, runVars>>

----------------------------------------------------------------------------
(* The render/step loop: while (application.GetDevice()->run()) { ... } *)

\* run() returns true: the window is open
RunTrue ==
    /\ pc = "while"
    /\ ChTime < MaxSteps
    /\ pc' = "BeginScene"
    /\ UNCHANGED <<meshVars, sysVars, cfgVars, finVars, runVars>>

\* run() returns false: the window was closed; return 0
RunFalse ==
    /\ pc = "while"
    /\ pc' = "done"
    /\ UNCHANGED <<meshVars, sysVars, cfgVars, finVars, runVars>>

\* application.BeginScene()
BeginScene ==
    /\ pc = "BeginScene"
    /\ scene_open' = TRUE
    /\ pc' = "DrawAll"
    /\ UNCHANGED <<ChTime, drawn>>
    /\ UNCHANGED <<meshVars, sysVars, cfgVars, finVars>>

\* A loop body that goes on without rendering the visualization objects.
DrawAllOmitted ==
    /\ pc = "DrawAll"
    /\ pc' = "drawGrid"
    /\ UNCHANGED <<meshVars, sysVars, cfgVars, finVars, runVars>>

\* application.DrawAll(): renders the current configuration into the scene
DrawAll ==
    /\ pc = "DrawAll"
    /\ drawn' = ChTime
    /\ pc' = "drawGrid"
    /\ UNCHANGED <<ChTime, scene_open>>
    /\ UNCHANGED <<meshVars, sysVars, cfgVars, finVars>>

\* ChIrrTools::drawGrid(...)
drawGrid ==
    /\ pc = "drawGrid"
    /\ pc' = "DoStep"
    /\ UNCHANGED <<meshVars, sysVars, cfgVars, finVars, runVars>>

\* application.DoStep(): advance the simulation by one timestep
DoStep ==
    /\ pc = "DoStep"
    /\ ChTime' = ChTime + 1
    /\ pc' = "EndScene"
    /\ UNCHANGED <<drawn, scene_open>>
    /\ UNCHANGED <<meshVars, sysVars, cfgVars, finVars>>

\* application.EndScene(): presents the scene that was drawn
EndScene ==
    /\ pc = "EndScene"
    /\ scene_open' = FALSE
    /\ pc' = "while"
    /\ UNCHANGED <<ChTime, drawn>>
    /\ UNCHANGED <<meshVars, sysVars, cfgVars, finVars>>

----------------------------------------------------------------------------
Next ==
    \/ AddMesh
    \/ CreateMaterial
    \/ CreateNode
    \/ NodeLoopExit
    \/ SetNodes
    \/ AddElement
    \/ ElementLoopExit
    \/ AddTruss
    \/ InitConstraintPos
    \/ AddConstraintPos
    \/ CreateCylinder
    \/ AddCylinder
    \/ InitConstraintCyl
    \/ AddConstraintCyl
    \/ AddVisualization
    \/ ConfigureSolver
    \/ CreateApplication
    \/ SetupInitial
    \/ RunTrue
    \/ RunFalse
    \/ BeginScene
    \/ DrawAll
    \/ drawGrid
    \/ DoStep
    \/ EndScene

Spec == Init /\ [][Next]_vars

----------------------------------------------------------------------------
(* Properties *)

Topology         == <<mesh_added, mesh_nodes, mesh_elements, bodylist, linklist>>
TopologyComplete == /\ mesh_added
                    /\ Len(mesh_nodes) = N_nodes
                    /\ Len(mesh_elements) = N_nodes - 1
                    /\ Range(bodylist) = {"truss", "cylinder"}
                    /\ Range(linklist) = {"constraint_pos", "constraint_cyl"}
Lifecycle        == IF ~initialized THEN "Uninitialized"
                    ELSE IF ChTime = 0 THEN "Finalized" ELSE "Stepping"
RenderPcs        == {"BeginScene", "DrawAll", "drawGrid", "EndScene"}
SimState         == <<node_pos, node_dir, body, ChTime>>

(* C1: the lifecycle is Uninitialized -> Finalized -> Stepping.  SetupInitial *)
(* is called exactly once in a run, when every node, element, body and       *)
(* constraint has been added and before the first step; the topology never   *)
(* changes afterwards; a finalized system never returns to Uninitialized;    *)
(* and no step is taken in the Uninitialized state.                          *)
C1_Lifecycle ==
    /\ [][setup_calls' # setup_calls =>
            /\ Lifecycle = "Uninitialized" /\ Lifecycle' = "Finalized"
            /\ setup_calls' = 1
            /\ TopologyComplete]_vars
    /\ [][Topology' # Topology => Lifecycle' = "Uninitialized"]_vars
    /\ [][Lifecycle # "Uninitialized" => Lifecycle' # "Uninitialized"]_vars
    /\ [][ChTime' # ChTime => Lifecycle # "Uninitialized" /\ setup_calls = 1]_vars
    /\ [](pc \in RenderPcs \cup {"while", "DoStep", "done"} => setup_calls = 1)
    /\ [](Lifecycle = "Uninitialized" => ChTime = 0)

C1_Witness == Lifecycle = "Stepping" /\ ChTime >= 2 /\ setup_calls = 1 /\ pc = "done"

(* C8 as stated: after each completed step the resulting configuration is   *)
(* rendered before the next step or before the loop exits; rendering and    *)
(* stepping never overlap; the render actions leave the simulation state    *)
(* unchanged.                                                               *)
C8_RenderedBeforeExit ==
    /\ [](pc = "DoStep" => drawn = ChTime)
    /\ [](pc = "done" /\ ChTime > 0 => drawn = ChTime)
    /\ [][ChTime' # ChTime => pc = "DoStep" /\ drawn' = drawn]_vars
    /\ [][(pc \in RenderPcs) => (SimState' = SimState)]_vars

(* C8, amended: the configuration a step produces is rendered by the DrawAll *)
(* of the next loop iteration, before the next step; when the loop exits     *)
(* after a step, that last configuration has not been rendered (the frame    *)
(* EndScene presents was drawn before the step).  Rendering and stepping     *)
(* never overlap, and the render actions leave the simulation state          *)
(* unchanged.                                                                *)
C8_RenderedBeforeNextStep ==
    /\ [](pc = "DoStep" => drawn = ChTime)
    /\ [](pc = "done" /\ ChTime > 0 => drawn = ChTime - 1)
    /\ [][ChTime' # ChTime => pc = "DoStep" /\ drawn' = drawn]_vars
    /\ [][(pc \in RenderPcs) => (SimState' = SimState)]_vars

C8_Witness == pc = "DoStep" /\ ChTime >= 1 /\ drawn = ChTime

(* C9: no dangling references.  When an element is given its two nodes both  *)
(* are registered in the mesh; element ie joins nodes ie and ie+1, for all   *)
(* 15 elements; when a constraint is initialized its node is in the mesh of  *)
(* the system and its body is in the system; nodes and bodies are never      *)
(* removed.                                                                  *)
C9_NoDangling ==
    /\ [](element # NoElement =>
            /\ {element.nodeA, element.nodeB} \subseteq Range(mesh_nodes)
            /\ element.nodeA = ie /\ element.nodeB = ie + 1)
    /\ [](\A k \in 1..Len(mesh_elements) :
            /\ mesh_elements[k] = [nodeA |-> k - 1, nodeB |-> k]
            /\ {k - 1, k} \subseteq Range(mesh_nodes))
    /\ [](pc \notin {"AddMesh", "CreateMaterial", "nodes", "elements", "AddElement"}
            => Len(mesh_elements) = 15)
    /\ [](\A l \in DOMAIN link :
            /\ mesh_added
            /\ link[l].node \in Range(mesh_nodes)
            /\ link[l].body \in Range(bodylist))
    /\ [](Range(linklist) \subseteq DOMAIN link)
    /\ [][/\ Range(mesh_nodes) \subseteq Range(mesh_nodes')
          /\ Range(bodylist) \subseteq Range(bodylist')
          /\ (mesh_added => mesh_added')]_vars

C9_Witness ==
    /\ Len(mesh_elements) = 15
    /\ DOMAIN link = {"constraint_pos", "constraint_cyl"}
    /\ link["constraint_pos"] = [node |-> 0, body |-> "truss"]
    /\ link["constraint_cyl"] = [node |-> 15, body |-> "cylinder"]
    /\ ChTime >= 1

NodeRange(n) == node_offset[n] .. (node_offset[n] + 5)
BodyRange(b) == IF body[b].fixed THEN {} ELSE body_offset[b] .. (body_offset[b] + 5)

ElementsHaveLength ==
    \A k \in 1..Len(mesh_elements) :
        node_pos[mesh_elements[k].nodeA] # node_pos[mesh_elements[k].nodeB]

====
